---- MODULE Spec2Model ----
(***************************************************************************)
(* News-trend-spike-monitor: the result cache (app/api/cache.py), the job  *)
(* queue (app/api/job_queue.py), the request handlers and background tasks *)
(* of app/api/main.py, and the binning / spike-ranking functions of        *)
(* src/services/trend_service.py.                                          *)
(*                                                                         *)
(* Scheduling.  The FastAPI handlers and the asyncio tasks run on one      *)
(* event loop; analyze_trend, process_analyze_job and cleanup_expired      *)
(* contain no await, so none of them is interleaved with another           *)
(* event-loop callback (LoopFree).  analyze_trend_background is a plain    *)
(* def handed to BackgroundTasks: it runs in a worker thread and its steps *)
(* interleave with whatever the event loop is doing.                       *)
(*                                                                         *)
(* Time is in seconds.  The clock advances by one sweep period (300 s) or  *)
(* by one day, so that both the 600 s cache TTL and the 24 h job age are   *)
(* crossed within a few clock steps.                                       *)
(***************************************************************************)
EXTENDS Integers, Sequences, FiniteSets, TLC

VARIABLES
    now,        \* datetime.now(), seconds
    last_latest_call,  \* main._last_latest_call
    cache,      \* InMemoryCache.cache: the dict, in insertion order
    req,        \* the analyze_trend handler invocation in progress
    bg,         \* analyze_trend_background tasks, by task number
    sweep,      \* periodic_cache_cleanup / cleanup_expired in progress
    jobs,       \* JobQueue.jobs
    nextJob,    \* number of uuid4 job ids handed out so far
    tasks,      \* process_analyze_job tasks, by job id
    served,     \* number of requests accepted so far
    resp,       \* the last finished analyze_trend invocation and its response
    input,      \* argument of the function under study (function specs)
    output      \* its result

vars == <<now, last_latest_call, cache, req, bg, sweep, jobs, nextJob, tasks, served, resp, input, output>>

----------------------------------------------------------------------------
(* Bounds *)

MaxTicks == 2       \* clock advances
MaxRequests == 2    \* requests served: analyze and analyze/async together

TickSteps == {300, 86400}

(* Program constants *)
AnalyzeTtl == 600
DefaultTtl == 600
MaxAgeHours == 24
DefaultMaxResults == 100
DefaultWindowHours == 24

Keywords == {"AI", "EV"}
ErrMsgs == {"", "boom"}        \* str(e) of an exception the pipeline raises

\* Optional[T]: <<>> is None, <<v>> is the value v
None == <<>>
Some(v) == <<v>>

----------------------------------------------------------------------------
(* Cache fingerprint: InMemoryCache._generate_key *)

\* code points of the parameter names, for Python's string ordering
Ord(name) ==
    CASE name = "keyword" -> <<107, 101, 121, 119, 111, 114, 100>>
      [] name = "max_results" -> <<109, 97, 120, 95, 114, 101, 115, 117, 108, 116, 115>>
      [] name = "time_window_hours" ->
            <<116, 105, 109, 101, 95, 119, 105, 110, 100, 111, 119, 95, 104, 111, 117, 114, 115>>
      [] name = "hours" -> <<104, 111, 117, 114, 115>>

RECURSIVE LexLess(_, _)
LexLess(a, b) ==
    IF a = <<>> THEN b # <<>>
    ELSE IF b = <<>> THEN FALSE
    ELSE IF a[1] # b[1] THEN a[1] < b[1]
    ELSE LexLess(Tail(a), Tail(b))

StrLess(s, t) == LexLess(Ord(s), Ord(t))

\* insert the pair p into the name-sorted sequence s
RECURSIVE InsertPair(_, _)
InsertPair(p, s) ==
    IF s = <<>> THEN <<p>>
    ELSE IF StrLess(p[1], s[1][1]) THEN <<p>> \o s
    ELSE <<s[1]>> \o InsertPair(p, Tail(s))

\* json.dumps(kwargs): the pairs in the order the caller passed them
JsonDumps(kwargs) == kwargs

\* json.dumps(kwargs, sort_keys=True): the pairs ordered by name
RECURSIVE JsonDumpsSorted(_)
JsonDumpsSorted(kwargs) ==
    IF kwargs = <<>> THEN <<>>
    ELSE InsertPair(kwargs[1], JsonDumpsSorted(Tail(kwargs)))

\* hashlib.md5(...).hexdigest(): a digest of the whole key string
Md5(s) == <<"md5", s>>

\* (mutant) json.dumps without sort_keys=True
generate_key_unsorted(prefix, kwargs) == Md5(<<prefix, ":", JsonDumps(kwargs)>>)

generate_key(prefix, kwargs) == Md5(<<prefix, ":", JsonDumpsSorted(kwargs)>>)

\* the keyword arguments the analyze handlers pass, in their order
AnalyzeKwargs(p) ==
    << <<"keyword", p.keyword>>, <<"max_results", p.max_results>>,
       <<"time_window_hours", p.time_window_hours>> >>

Params == [keyword : Keywords, max_results : {DefaultMaxResults},
           time_window_hours : {DefaultWindowHours}]

----------------------------------------------------------------------------
(* The dict behind InMemoryCache *)

DictKeys(d) == {d[i].key : i \in 1..Len(d)}
DictHas(d, key) == key \in DictKeys(d)
DictIdx(d, key) == CHOOSE i \in 1..Len(d) : d[i].key = key
DictGet(d, key) == d[DictIdx(d, key)]
\* d[key] = e : an existing key keeps its position, a new one goes last
DictPut(d, e) ==
    IF DictHas(d, e.key) THEN [d EXCEPT ![DictIdx(d, e.key)] = e]
    ELSE Append(d, e)
\* del d[key]
DictDel(d, key) == SelectSeq(d, LAMBDA e : e.key # key)

\* (mutant) the test of line 61 with >= for >
ExpiredAtExpiry(entry, t) == t >= entry.expires_at

\* InMemoryCache.get, the test of line 61
Expired(entry, t) == t > entry.expires_at

\* InMemoryCache.get up to its return or its del: "absent", "expired", "hit"
CacheLookup(d, key, t) ==
    IF ~DictHas(d, key) THEN "absent"
    ELSE IF Expired(DictGet(d, key), t) THEN "expired"
    ELSE "hit"

\* InMemoryCache.get, run without interruption: the value answered and the
\* dict it leaves
CacheGet(d, key, t) ==
    LET look == CacheLookup(d, key, t)
    IN CASE look = "absent" -> [value |-> None, cache |-> d]
         [] look = "expired" -> [value |-> None, cache |-> DictDel(d, key)]
         [] look = "hit" -> [value |-> Some(DictGet(d, key).value), cache |-> d]

\* InMemoryCache.set
CacheSet(d, key, value, ttl, t) ==
    LET ttl1 == IF ttl = None \/ ttl = Some(0) THEN DefaultTtl ELSE ttl[1]
    IN DictPut(d, [key |-> key, value |-> value, expires_at |-> t + ttl1])

----------------------------------------------------------------------------
(* TrendService.analyze_trend as the handlers see it: it raises, or it     *)
(* returns the analysis of what the news sources answer at time t, stamped *)
(* analyzed_at = t (trend_service.py line 190).                            *)

PipelineResult(p, t) ==
    [keyword |-> p.keyword, analyzed_at |-> t]

----------------------------------------------------------------------------
(* The clock *)

TickCount(t) == (t \div 86400) + ((t % 86400) \div 300)

\* datetime.now() read at trend_service.py line 190 (analyzed_at) and again
\* by the cache.set that follows it (cache.py line 84) gives the same
\* instant at this clock's grain: the clock advances while a pipeline runs,
\* not between its stamp and the set
Tick(d) ==
    /\ TickCount(now) < MaxTicks
    /\ req.pc # "write"
    /\ \A t \in DOMAIN bg : bg[t].pc # "write"
    /\ now' = now + d
    /\ sweep' = IF sweep.pc = "idle" THEN [sweep EXCEPT !.due = TRUE] ELSE sweep
    /\ UNCHANGED <<last_latest_call, cache, req, bg, jobs, nextJob, tasks, served, resp, input, output>>

----------------------------------------------------------------------------
(* The event loop runs one callback at a time *)

LoopFree ==
    /\ req.pc = "idle"
    /\ sweep.pc = "idle"
    /\ \A j \in DOMAIN tasks : tasks[j].pc # "running"

IdleReq == [pc |-> "idle"]
\* periodic_cache_cleanup asleep; due: its 300 s are over
IdleSweep == [pc |-> "idle", due |-> FALSE]

----------------------------------------------------------------------------
(* POST/GET /analyze: analyze_trend, analyze_trend_get *)

\* the record of a finished invocation: its number, its parameters, its
\* fingerprint, how it ended, the value it answered, when, the expiry of the
\* entry it read or wrote, the steps it took and the tasks it added to its
\* BackgroundTasks
Finished(kind, r, value, exp) ==
    [n |-> r.n, params |-> r.params, fp |-> r.fp, kind |-> kind, value |-> value, at |-> now,
     exp |-> exp, trace |-> r.trace, background_tasks |-> r.background_tasks]

\* background_tasks.add_task(analyze_trend_background, keyword, max_results,
\* time_window_hours), lines 263-269
add_task(r) == [r EXCEPT !.background_tasks = Append(@, r.params)]

\* the tasks of a response, started when the response has been sent
Started(background_tasks) ==
    [i \in 1..Len(background_tasks) |->
        [pc |-> "pipeline", params |-> background_tasks[i], result |-> None]]

NoResp == [n |-> 0, kind |-> "none"]

\* (mutant) the hit branch does not return: the pipeline runs all the same
analyze_trend_read_no_return(p) ==
    /\ LoopFree
    /\ served < MaxRequests
    /\ LET fp == generate_key("analyze", AnalyzeKwargs(p))
           look == CacheLookup(cache, fp, now)
           r == [pc |-> "idle", n |-> served + 1, params |-> p, fp |-> fp, result |-> None,
                 trace |-> <<"read_" \o look>>, background_tasks |-> <<>>]
       IN /\ req' = [r EXCEPT !.pc = IF look = "expired" THEN "evict" ELSE "pipeline"]
          /\ resp' = resp
    /\ served' = served + 1
    /\ UNCHANGED <<last_latest_call, now, cache, bg, sweep, jobs, nextJob, tasks, input, output>>

\* cache.get of lines 250-255 up to its return or its del, and the hit branch
analyze_trend_read(p) ==
    /\ LoopFree
    /\ served < MaxRequests
    /\ LET fp == generate_key("analyze", AnalyzeKwargs(p))
           look == CacheLookup(cache, fp, now)
           r == [pc |-> "idle", n |-> served + 1, params |-> p, fp |-> fp, result |-> None,
                 trace |-> <<"read_" \o look>>, background_tasks |-> <<>>]
       IN CASE look = "hit" ->
                 /\ req' = IdleReq
                 /\ resp' = Finished("hit", r, Some(DictGet(cache, fp).value),
                                   DictGet(cache, fp).expires_at)
            [] look = "expired" ->
                 /\ req' = [r EXCEPT !.pc = "evict"]
                 /\ resp' = resp
            [] look = "absent" ->
                 /\ req' = [r EXCEPT !.pc = "pipeline"]
                 /\ resp' = resp
    /\ served' = served + 1
    /\ UNCHANGED <<last_latest_call, now, cache, bg, sweep, jobs, nextJob, tasks, input, output>>

\* cache.get, lines 62-64: del self.cache[key]; return None
analyze_trend_evict ==
    /\ req.pc = "evict"
    /\ cache' = DictDel(cache, req.fp)
    /\ req' = [req EXCEPT !.pc = "pipeline", !.trace = Append(@, "evict")]
    /\ UNCHANGED <<last_latest_call, now, bg, sweep, jobs, nextJob, tasks, served, resp, input, output>>

\* lines 263-276: add_task, then trend_service.analyze_trend returns
analyze_trend_pipeline ==
    /\ req.pc = "pipeline"
    /\ req' = [add_task(req) EXCEPT !.pc = "write",
                                    !.result = Some(PipelineResult(req.params, now)),
                                    !.trace = Append(@, "pipeline_ok")]
    /\ UNCHANGED <<last_latest_call, now, cache, bg, sweep, jobs, nextJob, tasks, served, resp, input, output>>

\* lines 290-292: trend_service.analyze_trend raises; HTTP 500, and the
\* background task added to the request is dropped with the response
analyze_trend_raise(msg) ==
    /\ req.pc = "pipeline"
    /\ req' = IdleReq
    /\ resp' = Finished("error", [add_task(req) EXCEPT !.trace = Append(@, "pipeline_raise")],
                       None, 0)
    /\ UNCHANGED <<last_latest_call, now, cache, bg, sweep, jobs, nextJob, tasks, served, input, output>>

\* (mutant) the result is returned without cache.set
analyze_trend_write_unsaved ==
    /\ req.pc = "write"
    /\ cache' = cache
    /\ req' = IdleReq
    /\ resp' = Finished("miss", [req EXCEPT !.trace = Append(@, "write")],
                      req.result, now + AnalyzeTtl)
    /\ bg' = bg \o Started(req.background_tasks)
    /\ UNCHANGED <<last_latest_call, now, sweep, jobs, nextJob, tasks, served, input, output>>

\* lines 279-288: cache.set, return; the response starts the background task
analyze_trend_write ==
    /\ req.pc = "write"
    /\ cache' = CacheSet(cache, req.fp, req.result[1], Some(AnalyzeTtl), now)
    /\ req' = IdleReq
    /\ resp' = Finished("miss", [req EXCEPT !.trace = Append(@, "write")],
                      req.result, now + AnalyzeTtl)
    /\ bg' = bg \o Started(req.background_tasks)
    /\ UNCHANGED <<last_latest_call, now, sweep, jobs, nextJob, tasks, served, input, output>>

----------------------------------------------------------------------------
(* analyze_trend_background, in a worker thread; bg holds the tasks that   *)
(* have not returned yet                                                   *)

Drop(s, i) == SubSeq(s, 1, i - 1) \o SubSeq(s, i + 1, Len(s))

\* lines 178-182: trend_service.analyze_trend returns
background_pipeline(t) ==
    /\ bg[t].pc = "pipeline"
    /\ bg' = [bg EXCEPT ![t] = [@ EXCEPT !.pc = "write",
                                         !.result = Some(PipelineResult(bg[t].params, now))]]
    /\ UNCHANGED <<last_latest_call, now, cache, req, sweep, jobs, nextJob, tasks, served, resp, input, output>>

\* lines 186-187: it raises; logged
background_raise(t, msg) ==
    /\ bg[t].pc = "pipeline"
    /\ bg' = Drop(bg, t)
    /\ UNCHANGED <<last_latest_call, now, cache, req, sweep, jobs, nextJob, tasks, served, resp, input, output>>

\* (mutant) the task returns without cache.set
background_write_unsaved(t) ==
    /\ bg[t].pc = "write"
    /\ cache' = cache
    /\ bg' = Drop(bg, t)
    /\ UNCHANGED <<last_latest_call, now, req, sweep, jobs, nextJob, tasks, served, resp, input, output>>

\* line 184: cache.set
background_write(t) ==
    /\ bg[t].pc = "write"
    /\ \E key \in {generate_key("analyze", AnalyzeKwargs(bg[t].params))} :
          cache' = CacheSet(cache, key, bg[t].result[1], Some(AnalyzeTtl), now)
    /\ bg' = Drop(bg, t)
    /\ UNCHANGED <<last_latest_call, now, req, sweep, jobs, nextJob, tasks, served, resp, input, output>>

----------------------------------------------------------------------------
(* periodic_cache_cleanup and InMemoryCache.cleanup_expired, on the event  *)
(* loop.  The loop sleeps 300 s, one clock step, before each sweep, so a   *)
(* sweep starts only after the clock has advanced since the last one       *)
(* returned (sweep.due).                                                   *)
(*  The list comprehension walks the live dict: the dict iterator    *)
(* remembers the size it started with and raises RuntimeError when the     *)
(* size differs at a later step.                                           *)

\* line 110 and the start of the comprehension of lines 111-114
cleanup_expired_begin ==
    /\ LoopFree
    /\ sweep.due
    /\ sweep' = [pc |-> "scan", due |-> FALSE, now |-> now, used |-> Len(cache), pos |-> 1,
                 expired_keys |-> <<>>]
    /\ UNCHANGED <<last_latest_call, now, cache, req, bg, jobs, nextJob, tasks, served, resp, input, output>>

\* one step of the dict iterator and the test of line 113
cleanup_expired_scan ==
    /\ sweep.pc = "scan"
    /\ sweep' =
         IF Len(cache) # sweep.used THEN [pc |-> "raised", due |-> FALSE]
         ELSE IF sweep.pos > Len(cache) THEN [sweep EXCEPT !.pc = "del"]
         ELSE [sweep EXCEPT
                 !.pos = @ + 1,
                 !.expired_keys = IF Expired(cache[sweep.pos], sweep.now)
                                  THEN Append(@, cache[sweep.pos].key) ELSE @]
    /\ UNCHANGED <<last_latest_call, now, cache, req, bg, jobs, nextJob, tasks, served, resp, input, output>>

\* lines 116-117, one key per step; the function returns after the last
cleanup_expired_del ==
    /\ sweep.pc = "del"
    /\ IF sweep.expired_keys = <<>>
       THEN /\ sweep' = IdleSweep
            /\ cache' = cache
       ELSE /\ cache' = DictDel(cache, Head(sweep.expired_keys))
            /\ sweep' = [sweep EXCEPT !.expired_keys = Tail(@)]
    /\ UNCHANGED <<last_latest_call, now, req, bg, jobs, nextJob, tasks, served, resp, input, output>>

\* (mutant) no try in the loop: the error ends the task
periodic_cache_cleanup_uncaught ==
    /\ sweep.pc = "raised"
    /\ sweep' = [pc |-> "ended", due |-> FALSE]
    /\ UNCHANGED <<last_latest_call, now, cache, req, bg, jobs, nextJob, tasks, served, resp, input, output>>

\* periodic_cache_cleanup, lines 154-156: the error is logged, the loop goes on
periodic_cache_cleanup_except ==
    /\ sweep.pc = "raised"
    /\ sweep' = IdleSweep
    /\ UNCHANGED <<last_latest_call, now, cache, req, bg, jobs, nextJob, tasks, served, resp, input, output>>

\* periodic_cache_cleanup, line 152, past the last instant the clock
\* tracks: asyncio.sleep(300) returns again and again
periodic_cache_cleanup_wake ==
    /\ TickCount(now) >= MaxTicks
    /\ sweep.pc = "idle"
    /\ ~sweep.due
    /\ sweep' = [sweep EXCEPT !.due = TRUE]
    /\ UNCHANGED <<last_latest_call, now, cache, req, bg, jobs, nextJob, tasks, served, resp, input, output>>

----------------------------------------------------------------------------
(* JobQueue *)

PENDING == "pending"
PROCESSING == "processing"
COMPLETED == "completed"
FAILED == "failed"

\* Python truth value of an Optional[str]: None and "" are false
TruthyStr(opt) == opt # None /\ opt[1] # ""

\* Python truth value of an Optional[Dict]: None is false (and so is {},
\* which analyze_trend never returns)
TruthyDict(opt) == opt # None

\* JobQueue.create_job
create_job(js, id, job_type, params, t) ==
    (id :> [job_id |-> id, job_type |-> job_type, params |-> params,
            status |-> PENDING, created_at |-> t, updated_at |-> None,
            result |-> None, error |-> None]) @@ js

\* (mutant) an unknown id gets a record
update_job_status_upsert(js, id, status, result, error, t) ==
    IF id \notin DOMAIN js
    THEN (id :> [job_id |-> id, job_type |-> "analyze_trend",
                 params |-> <<>>,
                 status |-> status, created_at |-> t, updated_at |-> Some(t),
                 result |-> result, error |-> error]) @@ js
    ELSE [js EXCEPT ![id] = [@ EXCEPT
            !.status = status,
            !.updated_at = Some(t),
            !.result = IF TruthyDict(result) THEN result ELSE @,
            !.error = IF TruthyStr(error) THEN error ELSE @]]

\* JobQueue.update_job_status
update_job_status(js, id, status, result, error, t) ==
    IF id \notin DOMAIN js THEN js
    ELSE [js EXCEPT ![id] = [@ EXCEPT
            !.status = status,
            !.updated_at = Some(t),
            !.result = IF TruthyDict(result) THEN result ELSE @,
            !.error = IF TruthyStr(error) THEN error ELSE @]]

\* (mutant) only jobs that have ended are removed
cleanup_old_jobs_ended(js, max_age_hours, t) ==
    LET cutoff_time == t - max_age_hours * 3600
        jobs_to_remove == {id \in DOMAIN js : /\ js[id].created_at < cutoff_time
                                              /\ js[id].status \in {COMPLETED, FAILED}}
    IN [id \in DOMAIN js \ jobs_to_remove |-> js[id]]

\* JobQueue.cleanup_old_jobs
cleanup_old_jobs(js, max_age_hours, t) ==
    LET cutoff_time == t - max_age_hours * 3600
        jobs_to_remove == {id \in DOMAIN js : js[id].created_at < cutoff_time}
    IN [id \in DOMAIN js \ jobs_to_remove |-> js[id]]

\* POST /analyze/async: analyze_trend_async
analyze_trend_async(p) ==
    /\ LoopFree
    /\ served < MaxRequests
    /\ jobs' = create_job(jobs, nextJob, "analyze_trend", p, now)
    /\ tasks' = (nextJob :> [pc |-> "ready", params |-> p]) @@ tasks
    /\ nextJob' = nextJob + 1
    /\ served' = served + 1
    /\ UNCHANGED <<last_latest_call, now, cache, req, bg, sweep, resp, input, output>>

\* (mutant) line 478 left out: the job is not marked as processing
process_analyze_job_start_unmarked(j) ==
    /\ LoopFree
    /\ j \in DOMAIN tasks
    /\ tasks[j].pc = "ready"
    /\ tasks' = [tasks EXCEPT ![j].pc = "running"]
    /\ UNCHANGED <<last_latest_call, now, cache, req, bg, sweep, jobs, nextJob, served, resp, input, output>>

\* process_analyze_job, line 478: the task gets the event loop
process_analyze_job_start(j) ==
    /\ LoopFree
    /\ j \in DOMAIN tasks
    /\ tasks[j].pc = "ready"
    /\ jobs' = update_job_status(jobs, j, PROCESSING, None, None, now)
    /\ tasks' = [tasks EXCEPT ![j].pc = "running"]
    /\ UNCHANGED <<last_latest_call, now, cache, req, bg, sweep, nextJob, served, resp, input, output>>

\* (mutant) the job stores its result in the result cache as well
process_analyze_job_ok_cached(j) ==
    /\ j \in DOMAIN tasks
    /\ tasks[j].pc = "running"
    /\ jobs' = update_job_status(jobs, j, COMPLETED,
                                 Some(PipelineResult(tasks[j].params, now)), None, now)
    /\ tasks' = [tasks EXCEPT ![j].pc = "done"]
    /\ \E key \in {generate_key("analyze", AnalyzeKwargs(tasks[j].params))} :
          cache' = CacheSet(cache, key, PipelineResult(tasks[j].params, now),
                            Some(AnalyzeTtl), now)
    /\ UNCHANGED <<last_latest_call, now, req, bg, sweep, nextJob, served, resp, input, output>>

\* process_analyze_job, lines 481-488: the pipeline returns
process_analyze_job_ok(j) ==
    /\ j \in DOMAIN tasks
    /\ tasks[j].pc = "running"
    /\ jobs' = update_job_status(jobs, j, COMPLETED,
                                 Some(PipelineResult(tasks[j].params, now)), None, now)
    /\ tasks' = [tasks EXCEPT ![j].pc = "done"]
    /\ UNCHANGED <<last_latest_call, now, cache, req, bg, sweep, nextJob, served, resp, input, output>>

\* (mutant) no except clause: the exception ends the task
process_analyze_job_uncaught(j, msg) ==
    /\ j \in DOMAIN tasks
    /\ tasks[j].pc = "running"
    /\ tasks' = [tasks EXCEPT ![j].pc = "done"]
    /\ UNCHANGED <<last_latest_call, now, cache, req, bg, sweep, jobs, nextJob, served, resp, input, output>>

\* process_analyze_job, lines 490-492: the pipeline raises e, error=str(e)
process_analyze_job_except(j, msg) ==
    /\ j \in DOMAIN tasks
    /\ tasks[j].pc = "running"
    /\ jobs' = update_job_status(jobs, j, FAILED, None, Some(msg), now)
    /\ tasks' = [tasks EXCEPT ![j].pc = "done"]
    /\ UNCHANGED <<last_latest_call, now, cache, req, bg, sweep, nextJob, served, resp, input, output>>

\* periodic_job_cleanup: job_queue.cleanup_old_jobs(max_age_hours=24)
periodic_job_cleanup ==
    /\ LoopFree
    /\ jobs' = cleanup_old_jobs(jobs, MaxAgeHours, now)
    /\ jobs' # jobs
    /\ UNCHANGED <<last_latest_call, now, cache, req, bg, sweep, nextJob, tasks, served, resp, input, output>>

----------------------------------------------------------------------------
Init ==
    /\ now = 0
    /\ last_latest_call = 0
    /\ cache = <<>>
    /\ req = IdleReq
    /\ bg = <<>>
    /\ sweep = IdleSweep
    /\ jobs = <<>>
    /\ nextJob = 1
    /\ tasks = <<>>
    /\ served = 0
    /\ resp = NoResp
    /\ input = None
    /\ output = None

(* The fingerprint, called with keyword arguments in the caller's order *)

MaxParams == 3       \* keyword arguments of one call
ParamNames == {"keyword", "max_results", "time_window_hours", "hours"}
ParamVals == {1, 2}
Prefixes == {"analyze", "latest"}

Perms(S) == {f \in [1..Cardinality(S) -> S] : \A i, j \in 1..Cardinality(S) : f[i] = f[j] => i = j}

\* every way to pass keyword arguments: distinct names, any order, any values
KwargsCalls ==
    UNION {UNION {{[i \in 1..Cardinality(S) |-> <<o[i], a[o[i]]>>] : o \in Perms(S)} :
                     a \in [S -> ParamVals]} :
              S \in {T \in SUBSET ParamNames : Cardinality(T) \in 1..MaxParams /\ "keyword" \in T}}

PairsOf(kwargs) == {kwargs[i] : i \in 1..Len(kwargs)}

KeyInit ==
    /\ now = 0 /\ last_latest_call = 0 /\ cache = <<>> /\ req = IdleReq /\ bg = <<>> /\ sweep = IdleSweep
    /\ jobs = <<>> /\ nextJob = 1 /\ tasks = <<>> /\ served = 0 /\ resp = NoResp
    /\ input \in [prefix : Prefixes, set_kwargs : KwargsCalls,
                  get_prefix : Prefixes, get_kwargs : KwargsCalls]
    /\ output = None

\* cache.set(prefix, value, ttl, **set_kwargs)
cache_set_call ==
    /\ cache = <<>>
    /\ output = None
    /\ cache' = CacheSet(cache, generate_key(input.prefix, input.set_kwargs),
                         "value", Some(AnalyzeTtl), now)
    /\ UNCHANGED <<last_latest_call, now, req, bg, sweep, jobs, nextJob, tasks, served, resp, input, output>>

\* cache.get(get_prefix, **get_kwargs)
cache_get_call ==
    /\ cache # <<>>
    /\ output = None
    /\ LET g == CacheGet(cache, generate_key(input.get_prefix, input.get_kwargs), now)
       IN /\ output' = Some(g.value)
          /\ cache' = g.cache
    /\ UNCHANGED <<last_latest_call, now, req, bg, sweep, jobs, nextJob, tasks, served, resp, input>>

KeyNext == cache_set_call \/ cache_get_call

KeySpec == KeyInit /\ [][KeyNext]_vars

----------------------------------------------------------------------------
(* TrendService._create_time_series.  An item is [pubDate, sentiment_score]:*)
(* pubDate is None when the string does not parse (NaT) and Some(t), t in  *)
(* hours, when it does; sentiment_score is None when it is missing (NaN).  *)
(* A bucket carries its timestamp as text, the mean as the exact fraction  *)
(* <<sum, count>>, and the count; avg_confidence is left out.              *)

MaxItems == 4
PubDates == {None, Some(1), Some(9), Some(10)}
Scores == {None, Some(2), Some(8)}
Windows == {1, 2}

\* Timestamp.isoformat(): fixed-width text, here two digits
IsoFormat(t) == <<t \div 10, t % 10>>

\* published_dt.dt.floor(f"{time_window_hours}H")
FloorTo(t, w) == (t \div w) * w

\* (mutant) dropna on published_dt only
ValidItemsDateOnly(items) == SelectSeq(items, LAMBDA it : it.pubDate # None)

\* line 222: dropna(subset=["published_dt", "sentiment_score"])
ValidItems(items) ==
    SelectSeq(items, LAMBDA it : it.pubDate # None /\ it.sentiment_score # None)

\* agg "mean" and "count" over a group skip NaN: the sum and the number of
\* the scores that are present
RECURSIVE SumScores(_)
SumScores(items) ==
    IF items = <<>> THEN 0
    ELSE (IF items[1].sentiment_score = None THEN 0 ELSE items[1].sentiment_score[1])
            + SumScores(Tail(items))

CountScores(items) == Len(SelectSeq(items, LAMBDA it : it.sentiment_score # None))

\* insert the bucket b into the sequence s sorted by timestamp text
RECURSIVE InsertBucket(_, _)
InsertBucket(b, s) ==
    IF s = <<>> THEN <<b>>
    ELSE IF LexLess(b.timestamp, s[1].timestamp) THEN <<b>> \o s
    ELSE <<s[1]>> \o InsertBucket(b, Tail(s))

\* sorted(time_series, key=lambda x: x["timestamp"]) over the groups
RECURSIVE SortedBuckets(_)
SortedBuckets(bs) ==
    IF bs = {} THEN <<>>
    ELSE LET b == CHOOSE x \in bs : TRUE
         IN InsertBucket(b, SortedBuckets(bs \ {b}))

create_time_series(news_items, time_window_hours) ==
    LET df == ValidItems(news_items)
        bins == {FloorTo(df[i].pubDate[1], time_window_hours) : i \in 1..Len(df)}
        group(b) == SelectSeq(df, LAMBDA it : FloorTo(it.pubDate[1], time_window_hours) = b)
    IN IF news_items = <<>> \/ df = <<>> THEN <<>>
       ELSE SortedBuckets({[timestamp |-> IsoFormat(b),
                            avg_sentiment |-> <<SumScores(group(b)), CountScores(group(b))>>,
                            count |-> CountScores(group(b))] : b \in bins})

BinnerInit ==
    /\ now = 0 /\ last_latest_call = 0 /\ cache = <<>> /\ req = IdleReq /\ bg = <<>> /\ sweep = IdleSweep
    /\ jobs = <<>> /\ nextJob = 1 /\ tasks = <<>> /\ served = 0 /\ resp = NoResp
    /\ input \in [news_items : UNION {[1..n -> [pubDate : PubDates, sentiment_score : Scores]] :
                                         n \in 0..MaxItems},
                  time_window_hours : Windows]
    /\ output = None

create_time_series_call ==
    /\ output = None
    /\ output' = Some(create_time_series(input.news_items, input.time_window_hours))
    /\ UNCHANGED <<last_latest_call, now, cache, req, bg, sweep, jobs, nextJob, tasks, served, resp, input>>

BinnerNext == create_time_series_call

BinnerSpec == BinnerInit /\ [][BinnerNext]_vars

----------------------------------------------------------------------------
(* SpikeDetector.detect.  With n values of sum S and sum of squares Q, the *)
(* population variance is (n*Q - S*S) / n^2 and the deviation of v from    *)
(* the mean is |n*v - S| / n, so score > threshold is                      *)
(* (n*v - S)^2 > threshold^2 * (n*Q - S*S); a record carries               *)
(* (n*v - S)^2, which orders the records of one series as the score does.  *)

MaxBuckets == 5
BucketValues == 0..2
Thresholds == {1, 2}
DefaultThreshold == 2
DefaultMaxAnomalies == 10
AnomalyCaps == {1, 2, DefaultMaxAnomalies}

RECURSIVE SeqSum(_)
SeqSum(s) == IF s = <<>> THEN 0 ELSE s[1] + SeqSum(Tail(s))

SumSq(s) == SeqSum([i \in 1..Len(s) |-> s[i] * s[i]])

Dev2(values, i) ==
    LET d == Len(values) * values[i] - SeqSum(values) IN d * d

Var2(values) == Len(values) * SumSq(values) - SeqSum(values) * SeqSum(values)

\* the buckets whose score exceeds the threshold; bucket indices count from 0
SpikeCandidates(values, threshold) ==
    IF Len(values) < 3 \/ Var2(values) = 0 THEN {}
    ELSE {i \in 1..Len(values) : Dev2(values, i) > threshold * threshold * Var2(values)}

SpikeRecord(values, i) ==
    [bucketIndex |-> i - 1, value |-> values[i], score |-> Dev2(values, i)]

\* rank of candidate i: the number of candidates that come before it, by
\* higher score, then by earlier index
SpikeRank(values, cands, i) ==
    Cardinality({j \in cands : \/ Dev2(values, j) > Dev2(values, i)
                               \/ Dev2(values, j) = Dev2(values, i) /\ j < i})

\* (mutant) the first max_anomalies candidates in index order are kept
SpikeDetectFirst(values, threshold, max_anomalies) ==
    LET cands == SpikeCandidates(values, threshold)
        kept == {i \in cands : Cardinality({j \in cands : j < i}) < max_anomalies}
        nth(k) == CHOOSE i \in kept : Cardinality({j \in kept : j < i}) = k - 1
    IN [k \in 1..Cardinality(kept) |-> SpikeRecord(values, nth(k))]

\* the ranked list, cut after max_anomalies records
SpikeDetect(values, threshold, max_anomalies) ==
    LET cands == SpikeCandidates(values, threshold)
        kept == {i \in cands : SpikeRank(values, cands, i) < max_anomalies}
        nth(k) == CHOOSE i \in kept : SpikeRank(values, cands, i) = k - 1
    IN [k \in 1..Cardinality(kept) |-> SpikeRecord(values, nth(k))]

SpikeInit ==
    /\ now = 0 /\ last_latest_call = 0 /\ cache = <<>> /\ req = IdleReq /\ bg = <<>> /\ sweep = IdleSweep
    /\ jobs = <<>> /\ nextJob = 1 /\ tasks = <<>> /\ served = 0 /\ resp = NoResp
    /\ input \in [values : UNION {[1..n -> BucketValues] : n \in 0..MaxBuckets},
                  threshold : Thresholds, max_anomalies : AnomalyCaps]
    /\ output = None

spike_detect_call ==
    /\ output = None
    /\ output' = Some(SpikeDetect(input.values, input.threshold, input.max_anomalies))
    /\ UNCHANGED <<last_latest_call, now, cache, req, bg, sweep, jobs, nextJob, tasks, served, resp, input>>

SpikeNext == spike_detect_call

SpikeSpec == SpikeInit /\ [][SpikeNext]_vars

----------------------------------------------------------------------------
(* ZScoreDetector.detect and MovingAverageDetector.detect over one column. *)
(* A series is a sequence of optional numbers, None for NaN.  Both         *)
(* detectors compare ratios of deviations, which do not change when every  *)
(* value is multiplied by ten: the numbers are tenths (1.1 is 11).  A      *)
(* record carries its score as the fraction <<a, b>> of the squares, the   *)
(* score being sqrt(a / b).                                                *)

MaxSeries == 6
SeriesValues == {None, Some(10), Some(11), Some(100)}
DefaultWindowSize == 5
WindowSizes == {1, 2, DefaultWindowSize}

\* (mutant) no value counts as missing: NaN is read as 0
valid_mask_all(values, i) == TRUE

\* ~np.isnan(values)
valid_mask(values, i) == values[i] # None

ValueAt(values, i) == IF values[i] = None THEN 0 ELSE values[i][1]

\* np.where(valid_mask)[0], counted from 1
valid_indices(values) ==
    SelectSeq([i \in 1..Len(values) |-> i], LAMBDA i : valid_mask(values, i))

\* values[valid_mask]
valid_values(values) ==
    LET vi == valid_indices(values) IN [k \in 1..Len(vi) |-> ValueAt(values, vi[k])]

\* the valid values whose z-score is the threshold exactly
ZScoreTies(values, threshold) ==
    LET vv == valid_values(values)
    IN IF Len(values) < 2 \/ Len(vv) < 2 \/ Var2(vv) = 0 THEN {}
       ELSE {k \in 1..Len(vv) : Dev2(vv, k) = threshold * threshold * Var2(vv)}

\* (mutant) a record carries the position among the valid values, not the
\* position in the series
ZScoreDetector_detect_valid_position(values, threshold, rounded_up) ==
    LET vv == valid_values(values)
        n == Len(vv)
        anomaly_mask(k) ==
            \/ Dev2(vv, k) > threshold * threshold * Var2(vv)
            \/ Dev2(vv, k) = threshold * threshold * Var2(vv) /\ k \in rounded_up
        anomaly == SelectSeq([k \in 1..n |-> k], anomaly_mask)
    IN IF Len(values) < 2 \/ n < 2 \/ Var2(vv) = 0 THEN <<>>
       ELSE [m \in 1..Len(anomaly) |->
               [start |-> anomaly[m] - 1, end |-> anomaly[m] - 1,
                score |-> <<Dev2(vv, anomaly[m]), Var2(vv)>>,
                value |-> vv[anomaly[m]]]]

\* ZScoreDetector.detect: |v - mean| / std > threshold is, with n values of
\* sum S and sum of squares Q, (n*v - S)^2 > threshold^2 * (n*Q - S*S).
\* The code computes the quotient in float64: where it is the threshold
\* exactly, the rounding of mean, std and quotient decides the comparison
\* (0.5, 0.5, 0.5, 0.5, 0.45 gives 2.000000000000002 for the last value, and
\* 1, 1, 1, 1, 10 gives 2.0); rounded_up are the valid values, by position,
\* whose quotient is rounded above its exact value.
ZScoreDetector_detect(values, threshold, rounded_up) ==
    LET vi == valid_indices(values)
        vv == valid_values(values)
        n == Len(vv)
        anomaly_mask(k) ==
            \/ Dev2(vv, k) > threshold * threshold * Var2(vv)
            \/ Dev2(vv, k) = threshold * threshold * Var2(vv) /\ k \in rounded_up
        anomaly == SelectSeq([k \in 1..n |-> k], anomaly_mask)
    IN IF Len(values) < 2 \/ n < 2 \/ Var2(vv) = 0 THEN <<>>
       ELSE [m \in 1..Len(anomaly) |->
               [start |-> vi[anomaly[m]] - 1, end |-> vi[anomaly[m]] - 1,
                score |-> <<Dev2(vv, anomaly[m]), Var2(vv)>>,
                value |-> vv[anomaly[m]]]]

\* (mutant) a window that grows from the first valid value: the first
\* window_size valid values get the mean of what precedes and includes them
calculate_moving_average_growing(values, window_size, k) ==
    LET vv == valid_values(values)
    IN IF k <= window_size THEN Some(<<SeqSum(SubSeq(vv, 1, k)), k>>)
       ELSE Some(<<SeqSum(SubSeq(vv, k - window_size, k)), window_size + 1>>)

\* MovingAverageDetector._calculate_moving_average at the k-th valid value:
\* NaN for the first window_size of them, then the mean, as <<sum, count>>,
\* of the valid values from the one window_size places back up to this one
calculate_moving_average(values, window_size, k) ==
    LET vv == valid_values(values)
    IN IF k <= window_size THEN None
       ELSE Some(<<SeqSum(SubSeq(vv, k - window_size, k)), window_size + 1>>)

\* the valid values whose deviation from the moving average is the
\* threshold exactly
MovingAverageTies(values, window_size, threshold) ==
    LET vv == valid_values(values)
        n == Len(vv)
        ma == [k \in 1..n |-> calculate_moving_average(values, window_size, k)]
        var2 == Var2(vv)
        moving_avg(k) == ma[k]
        dev2(k) == LET d == ma[k][1][2] * vv[k] - ma[k][1][1]
                   IN n * n * d * d
        lim2(k) == ma[k][1][2] * ma[k][1][2] * var2
    IN IF Len(values) < window_size + 1 \/ n < window_size + 1 \/ var2 = 0 THEN {}
       ELSE {k \in 1..n : moving_avg(k) # None /\ dev2(k) = threshold * threshold * lim2(k)}

\* MovingAverageDetector.detect: |v - W/c| / std > threshold is
\* n^2 * (c*v - W)^2 > threshold^2 * c^2 * (n*Q - S*S), and rounding decides
\* where the float64 quotient is the threshold exactly
MovingAverageDetector_detect(values, window_size, threshold, rounded_up) ==
    LET vi == valid_indices(values)
        vv == valid_values(values)
        n == Len(vv)
        ma == [k \in 1..n |-> calculate_moving_average(values, window_size, k)]
        var2 == Var2(vv)
        moving_avg(k) == ma[k]
        dev2(k) == LET d == ma[k][1][2] * vv[k] - ma[k][1][1]
                   IN n * n * d * d
        lim2(k) == ma[k][1][2] * ma[k][1][2] * var2
        anomaly_mask(k) ==
            /\ moving_avg(k) # None
            /\ \/ dev2(k) > threshold * threshold * lim2(k)
               \/ dev2(k) = threshold * threshold * lim2(k) /\ k \in rounded_up
        anomaly == SelectSeq([k \in 1..n |-> k], anomaly_mask)
    IN IF Len(values) < window_size + 1 \/ n < window_size + 1 \/ var2 = 0 THEN <<>>
       ELSE [m \in 1..Len(anomaly) |->
               [start |-> vi[anomaly[m]] - 1, end |-> vi[anomaly[m]] - 1,
                score |-> <<dev2(anomaly[m]), lim2(anomaly[m])>>,
                value |-> vv[anomaly[m]]]]

DetectorInit ==
    /\ now = 0 /\ last_latest_call = 0 /\ cache = <<>> /\ req = IdleReq /\ bg = <<>> /\ sweep = IdleSweep
    /\ jobs = <<>> /\ nextJob = 1 /\ tasks = <<>> /\ served = 0 /\ resp = NoResp
    /\ input \in [values : UNION {[1..n -> SeriesValues] : n \in 0..MaxSeries},
                  threshold : Thresholds, window_size : WindowSizes]
    /\ output = None

zscore_detect_call ==
    /\ output = None
    /\ \E rounded_up \in SUBSET ZScoreTies(input.values, input.threshold) :
          output' = Some([detector |-> "zscore",
                          result |-> ZScoreDetector_detect(input.values, input.threshold,
                                                           rounded_up)])
    /\ UNCHANGED <<last_latest_call, now, cache, req, bg, sweep, jobs, nextJob, tasks, served, resp, input>>

moving_average_detect_call ==
    /\ output = None
    /\ \E rounded_up \in SUBSET MovingAverageTies(input.values, input.window_size,
                                                    input.threshold) :
          output' = Some([detector |-> "moving_average",
                          result |-> MovingAverageDetector_detect(
                                         input.values, input.window_size, input.threshold,
                                         rounded_up)])
    /\ UNCHANGED <<last_latest_call, now, cache, req, bg, sweep, jobs, nextJob, tasks, served, resp, input>>

DetectorNext == zscore_detect_call \/ moving_average_detect_call

DetectorSpec == DetectorInit /\ [][DetectorNext]_vars

----------------------------------------------------------------------------
(* TrendService.analyze_trend with its collectors.  A news item carries    *)
(* what the pipeline looks at: title ("" when title and summary both clean *)
(* to ""), about (the keyword occurs in the title or the summary), link    *)
(* ("" when the entry has none), pubDate (None when pandas cannot parse    *)
(* it, else hours) and sentiment, what sentiment_analyzer.analyze does     *)
(* with the item's text: None when it raises, else the positive score in   *)
(* tenths.  A source answers entries or fails in the fetch, or its collect *)
(* lets an exception out.                                                  *)

MaxEntries == 3      \* entries the two sources answer together
MaxResultsSet == {1, 2}
FallbackScore == 5   \* 0.5
TopItems == 20
DetectorFaults == {"none", "spike", "zscore", "moving_average"}

NewsItems ==
    { [title |-> "t1", about |-> TRUE, link |-> "a", pubDate |-> Some(1), sentiment |-> Some(2)],
      [title |-> "t2", about |-> TRUE, link |-> "a", pubDate |-> Some(9), sentiment |-> Some(8)],
      [title |-> "t3", about |-> TRUE, link |-> "b", pubDate |-> Some(10), sentiment |-> None],
      [title |-> "t4", about |-> TRUE, link |-> "", pubDate |-> Some(1), sentiment |-> Some(8)],
      [title |-> "", about |-> FALSE, link |-> "c", pubDate |-> Some(1), sentiment |-> Some(8)],
      [title |-> "t6", about |-> TRUE, link |-> "d", pubDate |-> None, sentiment |-> Some(2)] }

EntryLists(n) == UNION {[1..k -> NewsItems] : k \in 0..n}

Answered(entries) == [kind |-> "ok", entries |-> entries]
FetchRaises == [kind |-> "fetch_raises", entries |-> <<>>]
CollectRaises == [kind |-> "collect_raises", entries |-> <<>>]

\* what one source can do when the other answers n entries
SourceOutcomes(n) == {FetchRaises, CollectRaises} \cup {Answered(e) : e \in EntryLists(n)}

Returned(items) == [kind |-> "returned", items |-> items]
Raised == [kind |-> "raised", items |-> <<>>]

\* s[:n]
Take(s, n) == SubSeq(s, 1, IF n < Len(s) THEN n ELSE Len(s))

RECURSIVE DedupFrom(_, _)
DedupFrom(news_items, seen_links) ==
    IF news_items = <<>> THEN <<>>
    ELSE LET item == Head(news_items)
         IN IF item.link # "" /\ item.link \notin seen_links
            THEN <<item>> \o DedupFrom(Tail(news_items), seen_links \cup {item.link})
            ELSE DedupFrom(Tail(news_items), seen_links)

\* (mutant) an item without a link is kept, as an item of its own
deduplicate_by_link_keep_empty(news_items) ==
    LET first == SelectSeq([i \in 1..Len(news_items) |-> i],
                           LAMBDA i : \/ news_items[i].link = ""
                                      \/ \A j \in 1..(i - 1) :
                                            news_items[j].link # news_items[i].link)
    IN [k \in 1..Len(first) |-> news_items[first[k]]]

\* (mutant) the last item of each link is kept
deduplicate_by_link_last(news_items) ==
    LET last == SelectSeq([i \in 1..Len(news_items) |-> i],
                          LAMBDA i : /\ news_items[i].link # ""
                                     /\ \A j \in (i + 1)..Len(news_items) :
                                           news_items[j].link # news_items[i].link)
    IN [k \in 1..Len(last) |-> news_items[last[k]]]

\* RSSCollector._deduplicate_by_link, and lines 131-137 of analyze_trend
deduplicate_by_link(news_items) == DedupFrom(news_items, {})

\* RSSCollector.collect over one feed: the first max_results entries, those
\* about the keyword, deduplicated, cut at max_results; a failing feed is
\* logged and adds nothing
RSSCollector_collect(feed, max_results) ==
    IF feed.kind = "collect_raises" THEN Raised
    ELSE IF feed.kind = "fetch_raises" THEN Returned(<<>>)
    ELSE Returned(Take(deduplicate_by_link(
                          SelectSeq(Take(feed.entries, max_results), LAMBDA e : e.about)),
                       max_results))

\* the API answers 429, or requests.get raises Timeout
Status429 == [kind |-> "status_429", entries |-> <<>>]
Timeout == [kind |-> "timeout", entries |-> <<>>]

\* GoogleNewsCollector._fetch_page: status 429 raises Exception("API ...")
\* (line 140), a Timeout is logged and raised again (lines 174-176), as is
\* any other failure of the request; else the articles of the page
GoogleNewsCollector_fetch_page(api) ==
    IF api.kind \in {"status_429", "timeout", "fetch_raises"} THEN Raised
    ELSE Returned(api.entries)

\* GoogleNewsCollector.collect, max_results <= 100: one page of
\* min(100, max_results) articles is asked for, a failing fetch ends the
\* loop, and the list is cut at max_results
GoogleNewsCollector_collect(api, max_results) ==
    IF api.kind = "collect_raises" THEN Raised
    ELSE LET results == GoogleNewsCollector_fetch_page(api)
         IN IF results.kind = "raised" THEN Returned(Take(<<>>, max_results))
            ELSE Returned(Take(results.items, max_results))

\* (mutant) no try around collect
collect_unguarded(outcome) == outcome

\* analyze_trend lines 97-102 and 105-110: an exception of collect is
\* logged and nothing is added to news_items
collect_or_log(outcome) == IF outcome.kind = "raised" THEN Returned(<<>>) ELSE outcome

\* (mutant) the neutral sentiment is 0.0
empty_result_zero(keyword) ==
    [kind |-> "returned", keyword |-> keyword, total_news |-> 0, avg_sentiment |-> <<0, 1>>,
     time_series |-> <<>>, spikes |-> <<>>,
     anomalies |-> [zscore |-> <<>>, moving_average |-> <<>>], news_items |-> <<>>]

\* TrendService._empty_result; a mean is the fraction <<sum, count>>
empty_result(keyword) ==
    [kind |-> "returned", keyword |-> keyword, total_news |-> 0,
     avg_sentiment |-> <<FallbackScore, 1>>,
     time_series |-> <<>>, spikes |-> <<>>,
     anomalies |-> [zscore |-> <<>>, moving_average |-> <<>>], news_items |-> <<>>]

\* lines 143-161: the item with its sentiment_score, 0.5 when analyze raised
Scored(item) ==
    [title |-> item.title, link |-> item.link, pubDate |-> item.pubDate,
     sentiment_score |-> IF item.sentiment = None THEN Some(FallbackScore) ELSE item.sentiment]

\* the column avg_sentiment as whole numbers: every mean sum/count times the
\* product of all counts
RECURSIVE CountProduct(_)
CountProduct(time_series) ==
    IF time_series = <<>> THEN 1
    ELSE time_series[1].avg_sentiment[2] * CountProduct(Tail(time_series))

Column(time_series) ==
    [i \in 1..Len(time_series) |->
        time_series[i].avg_sentiment[1]
          * (CountProduct(time_series) \div time_series[i].avg_sentiment[2])]

\* TrendService.analyze_trend; analyzed_at is left out
TrendService_analyze_trend(in) ==
    LET rss == collect_or_log(RSSCollector_collect(in.rss, in.max_results))
        google == collect_or_log(GoogleNewsCollector_collect(in.google, in.max_results))
        news_items == rss.items \o google.items
        processed_items == SelectSeq(news_items, LAMBDA item : item.title # "")
        unique == deduplicate_by_link(processed_items)
        unique_items == [i \in 1..Len(unique) |-> Scored(unique[i])]
        analyzed == SelectSeq(unique, LAMBDA item : item.sentiment # None)
        sentiment_results == [i \in 1..Len(analyzed) |-> analyzed[i].sentiment[1]]
        time_series == create_time_series(unique_items, in.time_window_hours)
        column == Column(time_series)
    IN IF rss.kind = "raised" \/ google.kind = "raised" THEN [kind |-> "raised"]
       ELSE IF news_items = <<>> THEN empty_result(in.keyword)
       ELSE IF time_series = <<>> THEN empty_result(in.keyword)
       ELSE IF in.detector_fault # "none" THEN [kind |-> "raised"]
       ELSE [kind |-> "returned", keyword |-> in.keyword,
             total_news |-> Len(unique_items),
             avg_sentiment |-> IF sentiment_results # <<>>
                               THEN <<SeqSum(sentiment_results), Len(sentiment_results)>>
                               ELSE <<FallbackScore, 1>>,
             time_series |-> time_series,
             spikes |-> SpikeDetect(column, DefaultThreshold, DefaultMaxAnomalies),
             anomalies |->
                [zscore |-> ZScoreDetector_detect([i \in 1..Len(column) |-> Some(column[i])],
                                                  DefaultThreshold, in.rounded_up),
                 moving_average |->
                    MovingAverageDetector_detect([i \in 1..Len(column) |-> Some(column[i])],
                                                 DefaultWindowSize, DefaultThreshold,
                                                 in.rounded_up)],
             news_items |-> Take(unique_items, TopItems)]

PipelineInit ==
    /\ now = 0 /\ last_latest_call = 0 /\ cache = <<>> /\ req = IdleReq /\ bg = <<>> /\ sweep = IdleSweep
    /\ jobs = <<>> /\ nextJob = 1 /\ tasks = <<>> /\ served = 0 /\ resp = NoResp
    /\ \E n \in 0..MaxEntries :
          input \in [keyword : {"AI"}, max_results : MaxResultsSet, time_window_hours : Windows,
                     rss : SourceOutcomes(n), google : SourceOutcomes(MaxEntries - n),
                     detector_fault : DetectorFaults,
                     rounded_up : {{}, 1..MaxEntries}]
    /\ output = None

analyze_trend_call ==
    /\ output = None
    /\ output' = Some([op |-> "analyze_trend", result |-> TrendService_analyze_trend(input)])
    /\ UNCHANGED <<last_latest_call, now, cache, req, bg, sweep, jobs, nextJob, tasks, served, resp, input>>

deduplicate_by_link_call ==
    /\ output = None
    /\ input.rss.kind = "ok"
    /\ output' = Some([op |-> "deduplicate_by_link",
                       result |-> deduplicate_by_link(input.rss.entries)])
    /\ UNCHANGED <<last_latest_call, now, cache, req, bg, sweep, jobs, nextJob, tasks, served, resp, input>>

PipelineNext == analyze_trend_call \/ deduplicate_by_link_call

PipelineSpec == PipelineInit /\ [][PipelineNext]_vars

----------------------------------------------------------------------------
(* GoogleNewsCollector.collect called on its own, with an API key, as      *)
(* tests/test_google_news_collector.py does with requests.get mocked.      *)

MaxArticles == 3     \* articles the API answers

ApiAnswers == {Status429, Timeout} \cup {Answered(e) : e \in EntryLists(MaxArticles)}

CollectorInit ==
    /\ now = 0 /\ last_latest_call = 0 /\ cache = <<>> /\ req = IdleReq /\ bg = <<>> /\ sweep = IdleSweep
    /\ jobs = <<>> /\ nextJob = 1 /\ tasks = <<>> /\ served = 0 /\ resp = NoResp
    /\ input \in [keyword : {"AI"}, max_results : MaxResultsSet, api : ApiAnswers]
    /\ output = None

google_collect_call ==
    /\ output = None
    /\ output' = Some([op |-> "GoogleNewsCollector.collect",
                       result |-> GoogleNewsCollector_collect(input.api, input.max_results)])
    /\ UNCHANGED <<last_latest_call, now, cache, req, bg, sweep, jobs, nextJob, tasks, served, resp, input>>

CollectorNext == google_collect_call

CollectorSpec == CollectorInit /\ [][CollectorNext]_vars

----------------------------------------------------------------------------
(* JobQueue as an object: update_job_status and get_job called with any    *)
(* job id on a table of jobs in any of the states the queue's own methods  *)
(* put them in.  An id that is not in the table was never created or was   *)
(* removed by cleanup_old_jobs.                                            *)

MaxQueued == 2       \* jobs in the table

\* JobQueue.get_job: self.jobs.get(job_id)
get_job(js, id) == IF id \in DOMAIN js THEN Some(js[id]) ELSE None

\* the records job id can have: created, then marked as processing, then
\* completed with a result or failed with an error
JobRecords(id) ==
    LET p == CHOOSE q \in Params : TRUE
        created == create_job(<<>>, id, "analyze_trend", p, 0)
        processing == update_job_status(created, id, PROCESSING, None, None, 0)
    IN { created[id], processing[id],
         update_job_status(processing, id, COMPLETED, Some(PipelineResult(p, 0)), None, 0)[id],
         update_job_status(processing, id, FAILED, None, Some("boom"), 0)[id] }

JobTables ==
    UNION {{js \in [S -> UNION {JobRecords(id) : id \in S}] : \A id \in S : js[id].job_id = id} :
              S \in SUBSET (1..MaxQueued)}

QueueInit ==
    /\ now = 0 /\ last_latest_call = 0 /\ cache = <<>> /\ req = IdleReq /\ bg = <<>> /\ sweep = IdleSweep
    /\ jobs \in JobTables
    /\ nextJob = 1 /\ tasks = <<>> /\ served = 0 /\ resp = NoResp
    /\ input \in [job_id : 1..(MaxQueued + 1),
                  status : {PENDING, PROCESSING, COMPLETED, FAILED},
                  result : {None, Some(PipelineResult(CHOOSE q \in Params : TRUE, 0))},
                  error : {None} \cup {Some(m) : m \in ErrMsgs}]
    /\ output = None

update_job_status_call ==
    /\ output = None
    /\ jobs' = update_job_status(jobs, input.job_id, input.status, input.result, input.error, now)
    /\ output' = Some([op |-> "update_job_status", returned |-> None])
    /\ UNCHANGED <<last_latest_call, now, cache, req, bg, sweep, nextJob, tasks, served, resp, input>>

get_job_call ==
    /\ output = None
    /\ output' = Some([op |-> "get_job", returned |-> get_job(jobs, input.job_id)])
    /\ UNCHANGED <<last_latest_call, now, cache, req, bg, sweep, jobs, nextJob, tasks, served, resp, input>>

QueueNext == update_job_status_call \/ get_job_call

QueueSpec == QueueInit /\ [][QueueNext]_vars

----------------------------------------------------------------------------
(* JobQueue.cleanup_old_jobs called on a table of jobs of any status and   *)
(* age.  The periodic task calls it with max_age_hours = 24; the times are *)
(* such that a job is created before the cutoff, at the cutoff and after   *)
(* it, for a cutoff of one hour and of one day.                            *)

MaxRetained == 2     \* jobs in the table when cleanup_old_jobs is called

CleanupTimes == {86400, 90000}
CreationTimes == {0, 3600, 82800, 86400}
MaxAges == {1, MaxAgeHours}

\* the records job id can have when it was created at time c
JobRecordsAt(id, c) ==
    LET p == CHOOSE q \in Params : TRUE
        created == create_job(<<>>, id, "analyze_trend", p, c)
        processing == update_job_status(created, id, PROCESSING, None, None, c)
    IN { created[id], processing[id],
         update_job_status(processing, id, COMPLETED, Some(PipelineResult(p, c)), None, c)[id],
         update_job_status(processing, id, FAILED, None, Some("boom"), c)[id] }

AgedTables ==
    UNION {{js \in [S -> UNION {JobRecordsAt(id, c) : id \in S, c \in CreationTimes}] :
                \A id \in S : js[id].job_id = id} :
              S \in SUBSET (1..MaxRetained)}

RetentionInit ==
    /\ now \in CleanupTimes
    /\ last_latest_call = 0
    /\ cache = <<>> /\ req = IdleReq /\ bg = <<>> /\ sweep = IdleSweep
    /\ jobs \in AgedTables
    /\ nextJob = 1 /\ tasks = <<>> /\ served = 0 /\ resp = NoResp
    /\ input \in [max_age_hours : MaxAges]
    /\ output = None

cleanup_old_jobs_call ==
    /\ output = None
    /\ jobs' = cleanup_old_jobs(jobs, input.max_age_hours, now)
    /\ output' = Some([op |-> "cleanup_old_jobs", removed |-> Cardinality(DOMAIN jobs \ DOMAIN jobs')])
    /\ UNCHANGED <<last_latest_call, now, cache, req, bg, sweep, nextJob, tasks, served, resp, input>>

RetentionNext == cleanup_old_jobs_call

RetentionSpec == RetentionInit /\ [][RetentionNext]_vars

----------------------------------------------------------------------------
(* GET /latest: get_latest.  The throttle is one second, so in this        *)
(* section the clock counts milliseconds and advances by half a second.    *)
(* The service has been up for at least a second when the first request    *)
(* arrives (time.time() is seconds since 1970, _last_latest_call starts at *)
(* 0.0).  The handler has no await and get_latest_data returns at once: a  *)
(* call is one step.                                                       *)

MaxLatestCalls == 3  \* GET /latest requests
MaxLatestTicks == 3  \* half seconds the clock advances

LatestStart == 1000
LatestTickStep == 500
ThrottleWindow == 1000     \* current_time - _last_latest_call < 1.0
LatestTtl == 1000          \* cache.set("latest", ..., ttl=1, ...)
LatestHours == {1, 2}      \* hours: Query(1, ge=1, le=24)

\* TrendService.get_latest_data
get_latest_data(hours) == <<>>

\* LatestResponse(items=items, count=len(items), hours=hours).dict()
LatestResponse(items, hours) ==
    [keyword |-> None, items |-> items, count |-> Len(items), hours |-> hours]

LatestKwargs(hours) == << <<"hours", hours>> >>

\* get_latest; calls is the number of times it invoked get_latest_data
get_latest(hours) ==
    /\ served < MaxLatestCalls
    /\ LET key == generate_key("latest", LatestKwargs(hours))
           throttled == now - last_latest_call < ThrottleWindow
           got == CacheGet(cache, key, now)
           result == LatestResponse(get_latest_data(hours), hours)
       IN IF throttled /\ TruthyDict(got.value)
          THEN /\ cache' = got.cache
               /\ last_latest_call' = last_latest_call
               /\ output' = Some([op |-> "get_latest", hours |-> hours, calls |-> 0,
                                  response |-> got.value[1]])
          ELSE /\ last_latest_call' = now
               /\ cache' = CacheSet(IF throttled THEN got.cache ELSE cache, key, result,
                                    Some(LatestTtl), now)
               /\ output' = Some([op |-> "get_latest", hours |-> hours, calls |-> 1,
                                  response |-> result])
    /\ served' = served + 1
    /\ UNCHANGED <<now, req, bg, sweep, jobs, nextJob, tasks, resp, input>>

LatestTick ==
    /\ now < LatestStart + MaxLatestTicks * LatestTickStep
    /\ now' = now + LatestTickStep
    /\ UNCHANGED <<last_latest_call, cache, req, bg, sweep, jobs, nextJob, tasks, served,
                   resp, input, output>>

LatestInit ==
    /\ now = LatestStart /\ last_latest_call = 0 /\ cache = <<>> /\ req = IdleReq
    /\ bg = <<>> /\ sweep = IdleSweep /\ jobs = <<>> /\ nextJob = 1 /\ tasks = <<>>
    /\ served = 0 /\ resp = NoResp /\ input = None /\ output = None

LatestNext == LatestTick \/ \E hours \in LatestHours : get_latest(hours)

LatestSpec == LatestInit /\ [][LatestNext]_vars

----------------------------------------------------------------------------
ClockStep == \E d \in TickSteps : Tick(d)

AnalyzeStep ==
    \/ \E p \in Params : analyze_trend_read(p)
    \/ analyze_trend_evict
    \/ analyze_trend_pipeline
    \/ \E m \in ErrMsgs : analyze_trend_raise(m)
    \/ analyze_trend_write
    \/ \E t \in DOMAIN bg : background_pipeline(t)
    \/ \E t \in DOMAIN bg, m \in ErrMsgs : background_raise(t, m)
    \/ \E t \in DOMAIN bg : background_write(t)

SweepStep ==
    \/ cleanup_expired_begin
    \/ cleanup_expired_scan
    \/ cleanup_expired_del

JobStep ==
    \/ \E p \in Params : analyze_trend_async(p)
    \/ \E j \in DOMAIN tasks : process_analyze_job_start(j)
    \/ \E j \in DOMAIN tasks : process_analyze_job_ok(j)
    \/ \E j \in DOMAIN tasks, m \in ErrMsgs : process_analyze_job_except(j, m)
    \/ periodic_job_cleanup

\* the whole service
Next == ClockStep \/ AnalyzeStep \/ SweepStep \/ periodic_cache_cleanup_except \/ JobStep

Spec == Init /\ [][Next]_vars

\* the result cache and its users
CacheNext == ClockStep \/ AnalyzeStep \/ SweepStep \/ periodic_cache_cleanup_except

CacheSpec == Init /\ [][CacheNext]_vars

\* the job queue and its users, with the cache sweep competing for the loop
JobNext == ClockStep \/ JobStep \/ SweepStep

JobSpec == Init /\ [][JobNext]_vars

\* the job queue for progress: a job's keyword has no part in its progress
\* and its age counts in whole days, so one keyword and day-long clock steps
JobLiveParams == {p \in Params : p.keyword = "AI"}

JobLiveNext ==
    \/ Tick(86400)
    \/ \E p \in JobLiveParams : analyze_trend_async(p)
    \/ \E j \in DOMAIN tasks : process_analyze_job_start(j)
    \/ \E j \in DOMAIN tasks : process_analyze_job_ok(j)
    \/ \E j \in DOMAIN tasks, m \in ErrMsgs : process_analyze_job_except(j, m)
    \/ periodic_job_cleanup
    \/ SweepStep

\* asyncio runs a ready task in the next loop iteration (FIFO ready queue),
\* and every callback that holds the loop returns
JobFairSpec ==
    /\ Init
    /\ [][JobLiveNext]_vars
    /\ \A j \in 1..MaxRequests :
         /\ SF_vars(process_analyze_job_start(j))
         /\ WF_vars(process_analyze_job_ok(j) \/ \E m \in ErrMsgs : process_analyze_job_except(j, m))
    /\ WF_vars(cleanup_expired_scan)
    /\ WF_vars(cleanup_expired_del)

\* the result cache for progress.  The service has been running: the cache
\* holds entries written 900 s ago (expired) or just now.
WrittenAt == {0 - 900, 0}

RECURSIVE CacheOf(_, _)
CacheOf(ps, w) ==
    IF ps = <<>> THEN <<>>
    ELSE CacheSet(CacheOf(Tail(ps), Tail(w)),
                  generate_key("analyze", AnalyzeKwargs(Head(ps))),
                  PipelineResult(Head(ps), Head(w)), Some(AnalyzeTtl), Head(w))

\* caches of distinct fingerprints, in any order of insertion
LiveCaches ==
    UNION {{CacheOf(ps, w) : w \in [1..k -> WrittenAt],
                            ps \in {q \in [1..k -> Params] :
                                       \A i, j \in 1..k : q[i] = q[j] => i = j}} :
              k \in 0..Cardinality(Params)}

CacheLiveInit ==
    /\ now = 0
    /\ last_latest_call = 0
    /\ cache \in LiveCaches
    /\ req = IdleReq
    /\ bg = <<>>
    /\ sweep = IdleSweep
    /\ jobs = <<>>
    /\ nextJob = 1
    /\ tasks = <<>>
    /\ served = 0
    /\ resp = NoResp
    /\ input = None
    /\ output = None

\* new requests ask for one keyword and the clock advances by days: the
\* entries of the other keyword are those of the start
CacheLiveNext ==
    \/ Tick(86400)
    \/ \E p \in JobLiveParams : analyze_trend_read(p)
    \/ analyze_trend_evict
    \/ analyze_trend_pipeline
    \/ \E m \in ErrMsgs : analyze_trend_raise(m)
    \/ analyze_trend_write
    \/ \E t \in DOMAIN bg : background_pipeline(t)
    \/ \E t \in DOMAIN bg, m \in ErrMsgs : background_raise(t, m)
    \/ \E t \in DOMAIN bg : background_write(t)
    \/ SweepStep
    \/ periodic_cache_cleanup_except
    \/ periodic_cache_cleanup_wake

\* the event loop runs every callback that is ready, the thread pool every
\* task, and the timers of asyncio.sleep fire
CacheFairSpec ==
    /\ CacheLiveInit
    /\ [][CacheLiveNext]_vars
    /\ WF_vars(Tick(86400))
    /\ WF_vars(\/ analyze_trend_evict
               \/ analyze_trend_pipeline
               \/ \E m \in ErrMsgs : analyze_trend_raise(m)
               \/ analyze_trend_write)
    /\ WF_vars(\E t \in DOMAIN bg :
                  \/ background_pipeline(t)
                  \/ \E m \in ErrMsgs : background_raise(t, m)
                  \/ background_write(t))
    /\ WF_vars(\/ periodic_cache_cleanup_wake
               \/ SweepStep
               \/ periodic_cache_cleanup_except)
----------------------------------------------------------------------------
(* Properties of the job queue *)

\* the result cache and the job queue side by side: requests of both kinds
\* for one keyword, day-long clock steps, no sweep
JobCacheNext ==
    \/ Tick(86400)
    \/ \E p \in JobLiveParams : analyze_trend_read(p)
    \/ analyze_trend_evict
    \/ analyze_trend_pipeline
    \/ \E m \in ErrMsgs : analyze_trend_raise(m)
    \/ analyze_trend_write
    \/ \E t \in DOMAIN bg : background_pipeline(t)
    \/ \E t \in DOMAIN bg, m \in ErrMsgs : background_raise(t, m)
    \/ \E t \in DOMAIN bg : background_write(t)
    \/ \E p \in JobLiveParams : analyze_trend_async(p)
    \/ \E j \in DOMAIN tasks : process_analyze_job_start(j)
    \/ \E j \in DOMAIN tasks : process_analyze_job_ok(j)
    \/ \E j \in DOMAIN tasks, m \in ErrMsgs : process_analyze_job_except(j, m)

JobCacheSpec == Init /\ [][JobCacheNext]_vars

Terminal == {COMPLETED, FAILED}

C2_JobsTerminate ==
    \A j \in 1..MaxRequests :
        (j \in DOMAIN jobs) ~> (j \notin DOMAIN jobs \/ jobs[j].status \in Terminal)

\* a job whose task has returned and which is completed
C2_Witness ==
    \E j \in DOMAIN jobs : tasks[j].pc = "done" /\ jobs[j].status = COMPLETED

\* C3: a job whose pipeline raised is failed and carries a non-empty error
\* message.
C3_FailedCarriesError ==
    \A j \in DOMAIN jobs :
        jobs[j].status = FAILED => (jobs[j].error # None /\ jobs[j].error[1] # "")

----------------------------------------------------------------------------
(* Properties of the result cache and of the analyze handlers *)

\* a step of the analyze handler that answers the request
Answers == resp'.n # resp.n

\* C4: two successive analyze answers for the same fingerprint, the second
\* given before the entry the first one read or wrote has expired, carry the
\* same result.
C4_CacheIdempotent ==
    [][(/\ Answers
        /\ resp.kind \in {"hit", "miss"}
        /\ resp'.kind \in {"hit", "miss"}
        /\ resp'.fp = resp.fp
        /\ resp'.at <= resp.exp) => resp'.value = resp.value]_vars

AllowedTraces ==
    { <<"read_hit">>,
      <<"read_absent", "pipeline_ok", "write">>,
      <<"read_absent", "pipeline_raise">>,
      <<"read_expired", "evict", "pipeline_ok", "write">>,
      <<"read_expired", "evict", "pipeline_raise">> }

IsPrefix(s, t) == Len(s) <= Len(t) /\ SubSeq(t, 1, Len(s)) = s

\* C5: an analyze invocation reads the cache first, runs the pipeline only
\* after a miss and writes the cache only after the pipeline has returned a
\* result; a hit answers the stored value, runs no pipeline, starts no
\* background task and leaves the cache as it is.
C5_ReadPipelineWrite ==
    /\ [](/\ req.pc # "idle" => \E t \in AllowedTraces : IsPrefix(req.trace, t)
          /\ resp.kind # "none" => resp.trace \in AllowedTraces
          /\ req.pc = "write" => req.result # None)
    /\ [][/\ (req' # req /\ cache' # cache) =>
                \/ req.pc = "evict"
                \/ req.pc = "write" /\ req.result # None
                     /\ cache' = DictPut(cache, [key |-> req.fp, value |-> req.result[1],
                                                 expires_at |-> now + AnalyzeTtl])
          /\ (req' # req /\ req'.pc = "pipeline") => ~DictHas(cache', req'.fp)
          /\ (Answers /\ req.pc = "idle") =>
                /\ resp'.kind = "hit"
                /\ DictHas(cache, resp'.fp)
                /\ resp'.value = Some(DictGet(cache, resp'.fp).value)
                /\ cache' = cache
                /\ bg' = bg]_vars

\* a hit has been answered after an earlier invocation missed and wrote
C5_Witness ==
    /\ resp.kind = "hit"
    /\ resp.n = 2
    /\ resp.trace = <<"read_hit">>

\* C6: cache.get answers a stored value only while now <= expires_at, and
\* then leaves the cache alone; when the entry under the fingerprint has
\* expired the get answers nothing and deletes that entry only.
C6_LazyExpiry ==
    [][/\ (served' # served /\ req'.pc # "idle" /\ DictHas(cache, req'.fp)) =>
             /\ now > DictGet(cache, req'.fp).expires_at
             /\ req'.pc = "evict"
       /\ (served' # served /\ req'.pc = "idle") =>
             /\ DictHas(cache, resp'.fp)
             /\ now <= DictGet(cache, resp'.fp).expires_at
             /\ resp'.value = Some(DictGet(cache, resp'.fp).value)
             /\ cache' = cache
       /\ (req.pc = "evict" /\ req' # req) =>
             /\ req'.pc = "pipeline"
             /\ ~DictHas(cache', req.fp)
             /\ \A k \in DictKeys(cache) \ {req.fp} :
                   DictHas(cache', k) /\ DictGet(cache', k) = DictGet(cache, k)]_vars

\* an expired entry has just been deleted by the get of a request, and no
\* sweep has run
C6_Witness ==
    /\ req.pc = "pipeline"
    /\ req.trace = <<"read_expired", "evict">>
    /\ ~sweep.due
    /\ sweep.pc = "idle"
    /\ cache # <<>>

\* a hit answered at the very second the entry expires
C6_WitnessBoundary ==
    /\ resp.kind = "hit"
    /\ resp.at = resp.exp

\* C7: cleanup_expired does not raise and deletes expired entries only,
\* whatever the background tasks write meanwhile.
C7_SweepSafe ==
    [][/\ sweep'.pc # "raised"
       /\ sweep.pc = "del" =>
             \A k \in DictKeys(cache) \ DictKeys(cache') :
                 sweep.now > DictGet(cache, k).expires_at]_vars

----------------------------------------------------------------------------
(* Properties of the fingerprint, the binner and the spike detector *)

\* C8: a set and a get that name the same operation and pass the same
\* key/value pairs, in whatever order, use the same fingerprint, and the get
\* reads the stored value back.
C8_KeyOrderIndependent ==
    (input # None /\ input.prefix = input.get_prefix
        /\ PairsOf(input.set_kwargs) = PairsOf(input.get_kwargs)) =>
       /\ cache # <<>> => cache[1].key = <<"md5", <<input.get_prefix, ":",
                                            JsonDumpsSorted(input.get_kwargs)>> >>
       /\ output # None => output = Some(Some("value"))

\* a value stored with three arguments in one order has been read back with
\* the same arguments in another order
C8_Witness ==
    /\ output = Some(Some("value"))
    /\ Len(input.set_kwargs) = 3
    /\ PairsOf(input.set_kwargs) = PairsOf(input.get_kwargs)
    /\ input.set_kwargs # input.get_kwargs

\* C9: the bucket timestamps increase strictly, every bucket counts at least
\* one item, and the counts add up to the number of items with a parsable
\* timestamp and a score.
C9_Buckets ==
    output # None =>
        LET ts == output[1]
            valid == {i \in 1..Len(input.news_items) :
                        /\ input.news_items[i].pubDate # None
                        /\ input.news_items[i].sentiment_score # None}
        IN /\ \A i \in 1..Len(ts) - 1 : LexLess(ts[i].timestamp, ts[i + 1].timestamp)
           /\ \A i \in 1..Len(ts) - 1 :
                 10 * ts[i].timestamp[1] + ts[i].timestamp[2]
                   < 10 * ts[i + 1].timestamp[1] + ts[i + 1].timestamp[2]
           /\ \A i \in 1..Len(ts) : ts[i].count >= 1
           /\ SeqSum([i \in 1..Len(ts) |-> ts[i].count]) = Cardinality(valid)

\* two buckets, one of them with two items, and one item filtered out
C9_Witness ==
    /\ output # None
    /\ Len(output[1]) = 2
    /\ \E i \in 1..2 : output[1][i].count = 2
    /\ Len(input.news_items) = 4
    /\ \E i \in 1..4 : input.news_items[i].sentiment_score = None

\* C10: the detector returns at most max_anomalies records, all of them
\* candidates; when there are more candidates, it returns max_anomalies of
\* them and no candidate left out has a higher score than one returned.
C10_SpikeCap ==
    output # None =>
        LET out == output[1]
            v == input.values
            n == Len(v)
            S == SeqSum(v)
            over(i) == (n * v[i] - S) * (n * v[i] - S)
                          > input.threshold * input.threshold * (n * SumSq(v) - S * S)
            cands == IF n < 3 THEN {} ELSE {i \in 1..n : over(i)}
            returned == {out[k].bucketIndex + 1 : k \in 1..Len(out)}
        IN /\ Len(out) <= input.max_anomalies
           /\ Cardinality(returned) = Len(out)
           /\ returned \subseteq cands
           /\ Cardinality(cands) <= input.max_anomalies => returned = cands
           /\ Cardinality(cands) > input.max_anomalies =>
                 /\ Len(out) = input.max_anomalies
                 /\ \A i \in returned, j \in cands \ returned :
                       (n * v[i] - S) * (n * v[i] - S) >= (n * v[j] - S) * (n * v[j] - S)

\* more candidates than the cap, of different scores, and the cap applied
C10_Witness ==
    /\ output # None
    /\ Len(output[1]) = input.max_anomalies
    /\ Cardinality(SpikeCandidates(input.values, input.threshold)) > input.max_anomalies
    /\ \E i, j \in SpikeCandidates(input.values, input.threshold) :
          Dev2(input.values, i) < Dev2(input.values, j) /\ i < j

----------------------------------------------------------------------------
(* Properties of the anomaly detectors *)

\* the indices a detector flagged, counted from 0
Flagged(out) == {out.result[m].start : m \in 1..Len(out.result)}

AllValidEqual(values) ==
    \A i, j \in 1..Len(values) :
        (values[i] # None /\ values[j] # None) => values[i] = values[j]

ValidBefore(values, idx) == Cardinality({i \in 1..idx : values[i] # None})

Series11 == <<Some(10), Some(11), Some(10), Some(100), Some(11)>>

\* C11: for the series 1.0, 1.1, 1.0, 10.0, 1.1 and threshold 2.0 the
\* z-score detector flags index 3 and no other index.
C11_ZScoreScenario ==
    (/\ output # None
     /\ output[1].detector = "zscore"
     /\ input.values = Series11
     /\ input.threshold = DefaultThreshold) => Flagged(output[1]) = {3}

C13_FullWindowOnly ==
    (output # None /\ output[1].detector = "moving_average") =>
        /\ \A idx \in Flagged(output[1]) : ValidBefore(input.values, idx) >= input.window_size
        /\ ValidBefore(input.values, Len(input.values)) < input.window_size + 1
              => output[1].result = <<>>

\* the moving-average detector with the default window and the default
\* threshold has flagged a value
C13_Witness ==
    /\ output # None
    /\ output[1].detector = "moving_average"
    /\ input.window_size = DefaultWindowSize
    /\ input.threshold = DefaultThreshold
    /\ Flagged(output[1]) # {}

----------------------------------------------------------------------------
(* Properties of the pipeline *)

\* the entries a source hands to analyze_trend
Entries(source) == IF source.kind = "ok" THEN source.entries ELSE <<>>

AnalyzeDone == output # None /\ output[1].op = "analyze_trend"

\* news_items of analyze_trend: what the two collects returned, a failed
\* source counting as no entries
CollectedItems ==
    RSSCollector_collect(Answered(Entries(input.rss)), input.max_results).items
      \o GoogleNewsCollector_collect(Answered(Entries(input.google)), input.max_results).items

IsEmptyResult(r) ==
    /\ r.kind = "returned"
    /\ r.total_news = 0
    /\ r.avg_sentiment = <<5, 1>>
    /\ r.time_series = <<>>
    /\ r.spikes = <<>>
    /\ r.anomalies.zscore = <<>>
    /\ r.anomalies.moving_average = <<>>

\* C14: when collection yields no items, or every collected item has an
\* unparsable timestamp and so is dropped by the binner, analyze returns
\* the empty result: no news, sentiment 0.5, no series, no spikes, no
\* anomalies.
C14_EmptyResult ==
    (/\ AnalyzeDone
     /\ \A i \in 1..Len(CollectedItems) : CollectedItems[i].pubDate = None)
        => IsEmptyResult(output[1].result)

\* items were collected, the binner dropped them all, and the empty result
\* came back although a detector would have raised
C14_Witness ==
    /\ AnalyzeDone
    /\ CollectedItems # <<>>
    /\ input.detector_fault # "none"
    /\ IsEmptyResult(output[1].result)

\* u keeps the first item of every link of p, once, in the order of p
FirstPerLink(p, u) ==
    /\ \A i \in 1..Len(p) :
          p[i].link # "" =>
             \E k \in 1..Len(u) :
                /\ u[k].link = p[i].link
                /\ u[k].title = p[CHOOSE j \in 1..i : p[j].link = p[i].link
                                    /\ \A h \in 1..(j - 1) : p[h].link # p[i].link].title
                /\ \A m \in 1..Len(u) : u[m].link = p[i].link => m = k
    /\ \A k, m \in 1..Len(u) :
          k < m => \E i, j \in 1..Len(p) :
                      i < j /\ p[i].link = u[k].link /\ p[i].title = u[k].title
                            /\ p[j].link = u[m].link /\ p[j].title = u[m].title

\* C15: deduplication keeps, for every link (an item whose link is "" has
\* none), exactly the first item in arrival order that carries it, and the
\* kept items stay in their arrival order; this holds for the collector's
\* deduplication and for the one inside analyze.
C15_DedupFirstSeen ==
    /\ (output # None /\ output[1].op = "deduplicate_by_link")
          => FirstPerLink(input.rss.entries, output[1].result)
    /\ (AnalyzeDone /\ output[1].result.kind = "returned"
          /\ output[1].result.total_news > 0)
          => FirstPerLink(SelectSeq(CollectedItems, LAMBDA it : it.title # ""),
                          output[1].result.news_items)

\* two entries with the same link and different titles became one item, the
\* first
C15_Witness ==
    /\ output # None
    /\ output[1].op = "deduplicate_by_link"
    /\ Len(input.rss.entries) >= 2
    /\ input.rss.entries[1].link = input.rss.entries[2].link
    /\ input.rss.entries[1].title # input.rss.entries[2].title
    /\ input.rss.entries[1].link # ""
    /\ output[1].result = <<input.rss.entries[1]>>

OneSourceFailed ==
    \/ input.rss.kind # "ok" /\ input.google.kind = "ok"
    \/ input.rss.kind = "ok" /\ input.google.kind # "ok"

\* C16: when one source fails, analyze gives what it gives when that source
\* answers no entries and the other source answers as it did; and it does
\* not fail unless a detector does.
C16_SourceFailureTolerated ==
    (AnalyzeDone /\ OneSourceFailed) =>
        /\ output[1].result =
              TrendService_analyze_trend(
                 [input EXCEPT !.rss = Answered(Entries(input.rss)),
                               !.google = Answered(Entries(input.google))])
        /\ input.detector_fault = "none" => output[1].result.kind = "returned"

\* the collect of the RSS source raised and the analysis came back with the
\* news of the other source
C16_Witness ==
    /\ AnalyzeDone
    /\ input.rss.kind = "collect_raises"
    /\ input.google.kind = "ok"
    /\ output[1].result.kind = "returned"
    /\ output[1].result.total_news > 0

\* C17: when one detector raises, analyze still returns a result.
C17_DetectorFailureTolerated ==
    (AnalyzeDone /\ input.detector_fault # "none") => output[1].result.kind = "returned"

RECURSIVE ScoreSum(_)
ScoreSum(items) ==
    IF items = <<>> THEN 0 ELSE items[1].sentiment_score[1] + ScoreSum(Tail(items))

\* C18: in a non-empty result avg_sentiment is the mean of the sentiment
\* scores of all its items, those with the fallback score included.
C18_AvgOverAllItems ==
    (AnalyzeDone /\ output[1].result.kind = "returned" /\ output[1].result.total_news > 0) =>
        output[1].result.avg_sentiment[1] * Len(output[1].result.news_items)
           = output[1].result.avg_sentiment[2] * ScoreSum(output[1].result.news_items)

\* C19: total_news of a result does not exceed max_results.
C19_AtMostMaxResults ==
    (AnalyzeDone /\ output[1].result.kind = "returned") =>
        output[1].result.total_news <= input.max_results

----------------------------------------------------------------------------
(* Properties of the job queue as an object *)

\* C20: update_job_status with a job id that is not in the table returns,
\* inserts no job and changes no job; get_job of such an id answers None.
C20_UnknownJobNoOp ==
    [][input.job_id \notin DOMAIN jobs =>
          /\ jobs' = jobs
          /\ output' # None
          /\ output'[1].returned = None]_vars

\* update_job_status has returned for an id that is not in a table that
\* holds other jobs
C20_Witness ==
    /\ output # None
    /\ output[1].op = "update_job_status"
    /\ input.job_id \notin DOMAIN jobs
    /\ input.job_id <= MaxQueued
    /\ DOMAIN jobs # {}

----------------------------------------------------------------------------
(* Properties of cleanup_old_jobs *)

\* C21: cleanup_old_jobs(max_age_hours) removes exactly the jobs created
\* before now - max_age_hours, whatever their status, and leaves every
\* other job as it was.
C21_CleanupByAgeOnly ==
    [][/\ DOMAIN jobs' \subseteq DOMAIN jobs
       /\ \A id \in DOMAIN jobs :
            IF jobs[id].created_at < now - input.max_age_hours * 3600
            THEN id \notin DOMAIN jobs'
            ELSE id \in DOMAIN jobs' /\ jobs'[id] = jobs[id]]_vars

\* the daily cleanup has removed one job, and a job that had not ended was
\* left where it was, next to the one that is gone
C21_Witness ==
    /\ output # None
    /\ output[1].op = "cleanup_old_jobs"
    /\ input.max_age_hours = MaxAgeHours
    /\ output[1].removed = 1
    /\ \E id \in DOMAIN jobs : jobs[id].status \in {PENDING, PROCESSING}

----------------------------------------------------------------------------
(* Properties of GET /latest *)

\* C22: a latest call that arrives less than one second after the previous
\* recomputation is served from the cache and does not invoke
\* get_latest_data.
C22_OncePerWindow ==
    [][(served' = served + 1 /\ now - last_latest_call < ThrottleWindow) =>
          output'[1].calls = 0]_vars

\* the same, for a call that asks for the hours of the previous
\* recomputation
C22_OncePerWindowSameHours ==
    [][(/\ served' = served + 1
        /\ now - last_latest_call < ThrottleWindow
        /\ output # None
        /\ output[1].hours = output'[1].hours) =>
          output'[1].calls = 0]_vars

\* a call inside the window was served from the cache
C22_Witness ==
    /\ output # None
    /\ output[1].calls = 0
    /\ now - last_latest_call < ThrottleWindow

----------------------------------------------------------------------------
(* Properties of requests with the same fingerprint *)

\* the next handler starts: it reads the cache under the fingerprint of the
\* last answered request, which missed, ran the pipeline and wrote an entry
\* that has not expired
ReadAfterMiss ==
    /\ served' = served + 1
    /\ resp.kind = "miss"
    /\ now <= resp.exp
    /\ \/ req'.pc # "idle" /\ req'.fp = resp.fp
       \/ req'.pc = "idle" /\ resp'.fp = resp.fp

----------------------------------------------------------------------------
(* Properties of the background recomputation *)

\* C24: a request that misses adds exactly one background task, with its
\* own parameters, and a request that hits adds none; a task that returns
\* writes its result under the fingerprint of its parameters and nothing
\* else; a task that raises leaves the cache as it is and changes no
\* request's response.
C24_BackgroundRecomputation ==
    [][/\ resp' # resp =>
            resp'.background_tasks =
                IF resp'.kind = "hit" THEN <<>> ELSE <<resp'.params>>
       /\ (resp' # resp /\ resp'.kind = "miss") =>
            bg' = Append(bg, [pc |-> "pipeline", params |-> resp'.params, result |-> None])
       /\ \A t \in DOMAIN bg :
            bg' = Drop(bg, t) =>
                LET fp == generate_key("analyze", AnalyzeKwargs(bg[t].params))
                IN IF bg[t].pc = "write"
                   THEN /\ DictHas(cache', fp)
                        /\ DictGet(cache', fp).value = bg[t].result[1]
                        /\ DictKeys(cache') = DictKeys(cache) \cup {fp}
                        /\ \A k \in DictKeys(cache) \ {fp} : DictGet(cache', k) = DictGet(cache, k)
                   ELSE cache' = cache /\ resp' = resp /\ req' = req]_vars

\* the background task of the last answered request has replaced the entry
\* that the request wrote
C24_Witness ==
    /\ resp.kind = "miss"
    /\ bg = <<>>
    /\ DictHas(cache, resp.fp)
    /\ DictGet(cache, resp.fp).value # resp.value[1]
    /\ DictGet(cache, resp.fp).value.keyword = resp.params.keyword

\* a background task has raised: the entry of the request is still there
C24_WitnessFailed ==
    /\ resp.kind = "miss"
    /\ bg = <<>>
    /\ DictHas(cache, resp.fp)
    /\ DictGet(cache, resp.fp).value = resp.value[1]

----------------------------------------------------------------------------
(* Properties of GoogleNewsCollector.collect *)

\* C25: when the API answers 429 or the request times out, collect raises.
C25_CollectPropagates ==
    (output # None /\ input.api.kind \in {"status_429", "timeout"}) =>
        output[1].result.kind = "raised"

\* what collect does instead: it returns the empty list
C25_CollectReturnsEmpty ==
    (output # None /\ input.api.kind \in {"status_429", "timeout"}) =>
        output[1].result = Returned(<<>>)

----------------------------------------------------------------------------
(* Properties of the z-score detector, stated from the series itself *)

ValidIdx(values) == {i \in 1..Len(values) : values[i] # None}

RECURSIVE SumOver(_, _)
SumOver(values, I) ==
    IF I = {} THEN 0
    ELSE LET i == CHOOSE j \in I : TRUE
         IN values[i][1] + SumOver(values, I \ {i})

RECURSIVE SumSqOver(_, _)
SumSqOver(values, I) ==
    IF I = {} THEN 0
    ELSE LET i == CHOOSE j \in I : TRUE
         IN values[i][1] * values[i][1] + SumSqOver(values, I \ {i})

\* n^2 times the variance of the valid values
VarianceN2(values) ==
    LET I == ValidIdx(values)
    IN Cardinality(I) * SumSqOver(values, I) - SumOver(values, I) * SumOver(values, I)

\* n^2 times the square of the deviation of values[i] from the mean
DeviationN2(values, i) ==
    LET I == ValidIdx(values)
        d == Cardinality(I) * values[i][1] - SumOver(values, I)
    IN d * d

ZScoreDone == output # None /\ output[1].detector = "zscore"

\* C26: for a series of non-zero variance the z-score detector returns one
\* record per valid value whose deviation from the mean of the valid values
\* exceeds threshold times their population standard deviation, and no
\* other record; the records are in ascending order of index, and a
\* record's index is the value's position in the series, counted from 0
\* with the missing values.  (A value whose deviation is the threshold
\* exactly is reported or not, as the rounding of the quotient has it.)
C26_OneRecordPerAnomaly ==
    (ZScoreDone /\ VarianceN2(input.values) > 0) =>
        LET r == output[1].result
            t2 == input.threshold * input.threshold
        IN /\ \A m \in 1..(Len(r) - 1) : r[m].start < r[m + 1].start
           /\ \A m \in 1..Len(r) :
                /\ r[m].start + 1 \in ValidIdx(input.values)
                /\ r[m].end = r[m].start
                /\ r[m].value = input.values[r[m].start + 1][1]
                /\ DeviationN2(input.values, r[m].start + 1) >= t2 * VarianceN2(input.values)
           /\ \A i \in ValidIdx(input.values) :
                DeviationN2(input.values, i) > t2 * VarianceN2(input.values)
                    => (i - 1) \in Flagged(output[1])

\* a value that follows a missing one has been reported, under its position
\* in the series, while another valid value has not
C26_Witness ==
    /\ ZScoreDone
    /\ \E m \in 1..Len(output[1].result) :
          /\ \E i \in 1..output[1].result[m].start : input.values[i] = None
          /\ DeviationN2(input.values, output[1].result[m].start + 1)
                > input.threshold * input.threshold * VarianceN2(input.values)
    /\ Len(output[1].result) < Cardinality(ValidIdx(input.values))

\* C28: with threshold t the z-score detector returns no anomalies for a
\* series with at most t * t + 1 valid values.
C28_NoAnomalyInShortSeries ==
    (ZScoreDone /\ Cardinality(ValidIdx(input.values))
                      <= input.threshold * input.threshold + 1) =>
        output[1].result = <<>>

\* the same for at most t * t valid values, where no deviation reaches the
\* threshold
C28_NoAnomalyBelowBoundary ==
    (ZScoreDone /\ Cardinality(ValidIdx(input.values))
                      <= input.threshold * input.threshold) =>
        output[1].result = <<>>

----------------------------------------------------------------------------
(* Progress of the cache sweep *)

Fingerprints == {generate_key("analyze", AnalyzeKwargs(p)) : p \in Params}

ExpiredEntry(fp) == DictHas(cache, fp) /\ Expired(DictGet(cache, fp), now)

C29_JobsLeaveCache ==
    [][/\ (jobs' # jobs \/ tasks' # tasks) => cache' = cache
       /\ (resp = NoResp /\ req.pc = "idle") => cache = <<>>
       /\ (resp = NoResp /\ req.pc = "idle" /\ req' # req) =>
             /\ req'.pc = "pipeline"
             /\ ~DictHas(cache, req'.fp)
       /\ resp = NoResp => (resp' = NoResp \/ resp'.kind # "hit")]_vars

\* a job has completed and a synchronous analyze with its parameters, the
\* first one served, runs the pipeline
C29_Witness ==
    /\ req.pc = "pipeline"
    /\ resp = NoResp
    /\ \E j \in DOMAIN jobs : /\ jobs[j].status = COMPLETED
                               /\ jobs[j].params = req.params
                               /\ jobs[j].result # None

\* the links of the items that have one
LinksOf(items) == {items[i].link : i \in 1..Len(items)} \ {""}

NonEmptyDistinctLinks(u) ==
    /\ \A k \in 1..Len(u) : u[k].link # ""
    /\ \A k, m \in 1..Len(u) : u[k].link = u[m].link => k = m

\* the items analyze deduplicates: those collected that have a title
TitledItems == SelectSeq(CollectedItems, LAMBDA it : it.title # "")

\* C30: every item of the deduplicated output has a non-empty link and no
\* two items share a link; there are as many items as distinct non-empty
\* links came in, so an item without a link is dropped: it counts neither
\* in total_news nor in a bucket.  For the collector's deduplication and
\* for the one inside analyze.
C30_NonEmptyDistinctLinks ==
    /\ (output # None /\ output[1].op = "deduplicate_by_link") =>
          /\ NonEmptyDistinctLinks(output[1].result)
          /\ Len(output[1].result) = Cardinality(LinksOf(input.rss.entries))
    /\ (AnalyzeDone /\ output[1].result.kind = "returned"
          /\ output[1].result.total_news > 0) =>
          /\ NonEmptyDistinctLinks(output[1].result.news_items)
          /\ output[1].result.total_news = Cardinality(LinksOf(TitledItems))
          /\ Len(output[1].result.news_items) = output[1].result.total_news
          /\ SeqSum([i \in 1..Len(output[1].result.time_series) |->
                       output[1].result.time_series[i].count])
                <= output[1].result.total_news

\* analyze was given an item with a title and no link next to items with
\* links, and answered without it
C30_Witness ==
    /\ AnalyzeDone
    /\ output[1].result.kind = "returned"
    /\ output[1].result.total_news > 0
    /\ \E i \in 1..Len(TitledItems) : TitledItems[i].link = ""
    /\ output[1].result.total_news < Len(TitledItems)

====
